---- MODULE Spec2Model ----
(***************************************************************************)
(* Particle-Gibbs sampler for BART (pymc/bart/pgbart.py).                  *)
(*                                                                         *)
(* Numbers are fixed-point integers: a float division a / b is a \div b,   *)
(* a uniform draw of np.random.random() is k / RandScale for k in          *)
(* 0..RandScale-1, log-weights are in tenths of a nat.  Python objects     *)
(* that are shared by reference (the particles of a sweep) are modelled by *)
(* references into an object table, so aliasing is visible.                *)
(***************************************************************************)
EXTENDS Integers, Sequences, FiniteSets, TLC

VARIABLES
    X,                     \* self.X: design matrix, X[row][predictor], rows and predictors from 0
    response,              \* self.response
    max_stages,            \* self.max_stages
    tune,                  \* self.tune
    q,                     \* q.data: the total prediction vector the driver holds between steps
    sum_trees_output,      \* astep's local sum_trees_output
    sum_trees_output_noi,  \* self.sum_trees_output_noi
    variable_inclusion,    \* astep's local variable_inclusion
    alpha_vec,             \* self.alpha_vec
    ssv,                   \* self.ssv.enu
    normal,                \* self.normal.cache
    a_tree,                \* self.a_tree
    all_particles,         \* self.all_particles (the objects themselves, by tree id)
    objs,                  \* the ParticleTree objects created by init_particles, by reference
    particles,             \* astep's local particles: slot -> reference (0 = all_particles[tree_id])
    pc,                    \* position inside astep
    tree_ids,              \* astep's local tree_ids, the batch
    done,                  \* number of entries of tree_ids the loop has taken
    tree_id,               \* the tree id of the current (or last committed) sweep
    t,                     \* round counter of the sweep
    slot,                  \* position of the loop "for p in particles[1:]" of a round
    stats,                 \* the stats returned by the last step
    steps,                 \* number of steps started
    call                   \* last call of a pure function (specifications of pure functions)

vars == <<X, response, max_stages, tune, q, sum_trees_output, sum_trees_output_noi,
          variable_inclusion, alpha_vec, ssv, normal, a_tree, all_particles, objs,
          particles, pc, tree_ids, done, tree_id, t, slot, stats, steps, call>>

----------------------------------------------------------------------------
(* Bounds of the model *)

RandScale == 5      \* resolution of a uniform draw and of a probability
MaxSteps == 1       \* number of astep calls explored
MaxStagesBound == 2 \* max_stages is drawn from 0..MaxStagesBound
MaxGrows == 3       \* number of grow_tree calls explored on one tree
MaxResiduals == 2   \* length of the residual vector passed to draw_leaf_value
size == 2           \* NormalSampler.size (1000 in the source)

(* Configuration *)

m == 2              \* self.m, number of trees
num_particles == 3  \* num_particles
alpha == 2          \* self.alpha, in units of 1 / RandScale
mu_std == 1         \* self.mu_std
NaN == 0 - 1        \* a missing entry of X
None == 0 - 1       \* Python's None where an index is expected

Arr(s) == [i \in 0 .. (Len(s) - 1) |-> s[i + 1]]   \* a 0-based array from its list of entries

Y == Arr(<<0, 4>>)               \* self.Y
batch == <<1, 2>>                \* self.batch: (tuning, after tuning)
NormVals == {1}                  \* values a refill of the normal cache draws
SeedVals == {0 - 1, 0, 1}        \* values an earlier refill may have left in the cache
U == 0 .. (RandScale - 1)        \* np.random.random(), as numerators over RandScale

----------------------------------------------------------------------------
(* Helpers for arrays *)

RECURSIVE SeqSum(_)
SeqSum(s) == IF s = <<>> THEN 0 ELSE Head(s) + SeqSum(Tail(s))

RECURSIVE Dot(_, _)
Dot(a, b) == IF a = <<>> THEN 0 ELSE Head(a) * Head(b) + Dot(Tail(a), Tail(b))

Range(s) == {s[i] : i \in DOMAIN s}

\* s[mask]: boolean-mask indexing of an array
RECURSIVE Mask(_, _)
Mask(s, keep) ==
    IF s = <<>> THEN <<>>
    ELSE (IF Head(keep) THEN <<Head(s)>> ELSE <<>>) \o Mask(Tail(s), Tail(keep))

Take(a, idx) == [j \in 1..Len(idx) |-> a[idx[j]]]

isnan(x) == x = NaN

num_observations == Cardinality(DOMAIN Y)
Rows == 0 .. (num_observations - 1)
num_variates == Cardinality(DOMAIN X[0])
available_predictors == [i \in 0 .. (num_variates - 1) |-> i]
missing_data == \E r \in DOMAIN X : \E c \in DOMAIN X[r] : isnan(X[r][c])

Abs(x) == IF x < 0 THEN 0 - x ELSE x

RECURSIVE MaxOf(_)
MaxOf(s) == IF Len(s) = 1 THEN s[1]
            ELSE LET r == MaxOf(Tail(s)) IN IF Head(s) > r THEN Head(s) ELSE r

----------------------------------------------------------------------------
(* pymc.bart.tree: heap-indexed binary tree *)

RECURSIVE Depth(_)
Depth(index) == IF index = 0 THEN 0 ELSE 1 + Depth((index - 1) \div 2)

get_idx_left_child(index) == 2 * index + 1
get_idx_right_child(index) == 2 * index + 2

\* value: <<v>> is a scalar, a longer sequence is an array aligned with idx_data_points
LeafNode(index, value, idx_data_points, linear_params) ==
    [kind |-> "leaf", index |-> index, value |-> value,
     idx_data_points |-> idx_data_points, linear_params |-> linear_params]

SplitNode(index, idx_split_variable, split_value) ==
    [kind |-> "split", index |-> index, idx_split_variable |-> idx_split_variable,
     split_value |-> split_value]

init_tree(id, leaf_node_value, idx_data_points) ==
    [tree_id |-> id,
     tree_structure |-> (0 :> LeafNode(0, <<leaf_node_value>>, idx_data_points, <<>>)),
     idx_leaf_nodes |-> <<0>>]

get_node(tree, index) == tree.tree_structure[index]

Remove(s, x) == Mask(s, [j \in 1 .. Len(s) |-> s[j] # x])

\* Tree.grow_tree: the leaf becomes a split node, the two new leaves are appended
Tree_grow_tree(tree, index_leaf_node, new_split_node, new_left_node, new_right_node) ==
    [tree EXCEPT
        !.tree_structure = (new_left_node.index :> new_left_node)
                           @@ (new_right_node.index :> new_right_node)
                           @@ (index_leaf_node :> new_split_node)
                           @@ tree.tree_structure,
        !.idx_leaf_nodes = Remove(tree.idx_leaf_nodes, index_leaf_node)
                           \o <<new_left_node.index, new_right_node.index>>]

LeafValueAt(leaf, j) == IF Len(leaf.value) = 1 THEN leaf.value[1] ELSE leaf.value[j]

\* output[leaf.idx_data_points] = leaf.value, leaf after leaf, over an array of zeros
RECURSIVE PredictLeaves(_, _, _)
PredictLeaves(tree, leaves, output) ==
    IF leaves = <<>> THEN output
    ELSE LET leaf == get_node(tree, Head(leaves))
             idx == leaf.idx_data_points
             out == [r \in Rows |->
                        IF \E j \in 1 .. Len(idx) : idx[j] = r
                        THEN LeafValueAt(leaf, CHOOSE j \in 1 .. Len(idx) : idx[j] = r)
                        ELSE output[r]]
         IN PredictLeaves(tree, Tail(leaves), out)

predict_output(tree) == PredictLeaves(tree, tree.idx_leaf_nodes, [r \in Rows |-> 0])

----------------------------------------------------------------------------
(* Samplers and pure functions of pgbart.py *)

\* alpha ** depth in fixed point
RECURSIVE Pow(_, _)
Pow(a, depth) == IF depth = 0 THEN RandScale ELSE (Pow(a, depth - 1) * a) \div RandScale

RECURSIVE PriorLoop(_, _, _)
PriorLoop(a, prior_leaf_prob, depth) ==
    IF prior_leaf_prob[Len(prior_leaf_prob)] < RandScale
    THEN PriorLoop(a, Append(prior_leaf_prob, RandScale - Pow(a, depth)), depth + 1)
    ELSE prior_leaf_prob

\* a table whose loop stops one entry early, before the probability reaches 1
compute_prior_probability_short(a) ==
    Arr(SubSeq(PriorLoop(a, <<0>>, 1), 1, Len(PriorLoop(a, <<0>>, 1)) - 1))
compute_prior_probability(a) == Arr(PriorLoop(a, <<0>>, 1))

prior_prob_leaf_node == compute_prior_probability(alpha)

\* SampleSplittingVariable.__init__: enu[i] = (i, cumsum(alpha_vec / alpha_vec.sum())[i]),
\* the cumulative weight kept as the exact fraction num / den
RECURSIVE CumSum(_, _)
CumSum(w, i) == IF i < 0 THEN 0 ELSE w[i] + CumSum(w, i - 1)

SampleSplittingVariable(w) ==
    [j \in 1 .. Cardinality(DOMAIN w) |->
        [i |-> j - 1, num |-> CumSum(w, j - 1), den |-> CumSum(w, Cardinality(DOMAIN w) - 1)]]

\* SampleSplittingVariable.rvs with the uniform draw r / RandScale
RECURSIVE rvs(_, _)
rvs(enu, r) ==
    IF enu = <<>> THEN None
    ELSE IF r * Head(enu).den <= Head(enu).num * RandScale THEN Head(enu).i
    ELSE rvs(Tail(enu), r)

discrete_uniform_sampler(r, upper_value) == (r * upper_value) \div RandScale

\* NormalSampler.random: refill the cache with `fill` when it is empty, pop the last entry
NormalSampler_random(cache, fill) ==
    LET c == IF cache = <<>> THEN fill ELSE cache
    IN [val |-> c[Len(c)], cache |-> SubSeq(c, 1, Len(c) - 1)]

Fills == [1 .. size -> NormVals]

\* the refills a call can draw: one value only when the cache is not refilled
FillsFor(cache) == IF cache = <<>> THEN Fills ELSE {[j \in 1 .. size |-> 0]}

mean(a) == SeqSum(a) \div Len(a)

linear_fit(Xs, Ys) ==
    LET n == Len(Ys)
        xbar == SeqSum(Xs) \div n
        ybar == SeqSum(Ys) \div n
        den == Dot(Xs, Xs) - n * xbar * xbar
        b == IF den > 0 THEN (Dot(Xs, Ys) - n * xbar * ybar) \div den ELSE 0
        a == ybar - b * xbar
    IN [Y_fit |-> [j \in 1 .. n |-> a + b * Xs[j]], linear_params |-> <<a, b, 0>>]

\* draw_leaf_value; raised: mu_mean is unbound for a response that is neither
\* "constant" nor "linear"
\* a draw_leaf_value whose single-residual branch returns before the normal draw
draw_leaf_value_exact(Y_mu_pred, X_mu, mm, cache, fill, std, resp) ==
    IF Len(Y_mu_pred) = 0
    THEN [draw |-> <<0>>, linear_params |-> <<>>, cache |-> cache, raised |-> FALSE]
    ELSE IF Len(Y_mu_pred) = 1
    THEN [draw |-> <<Y_mu_pred[1] \div mm>>, linear_params |-> <<>>, cache |-> cache,
          raised |-> FALSE]
    ELSE LET nr == NormalSampler_random(cache, fill)
             norm == nr.val * std
         IN IF resp = "constant"
            THEN [draw |-> <<norm + (mean(Y_mu_pred) \div mm)>>, linear_params |-> <<>>,
                  cache |-> nr.cache, raised |-> FALSE]
            ELSE IF resp = "linear"
            THEN LET lf == linear_fit(X_mu, Y_mu_pred)
                 IN [draw |-> [j \in 1 .. Len(Y_mu_pred) |-> norm + (lf.Y_fit[j] \div mm)],
                     linear_params |-> <<lf.linear_params[1], lf.linear_params[2], norm>>,
                     cache |-> nr.cache, raised |-> FALSE]
            ELSE [draw |-> <<>>, linear_params |-> <<>>, cache |-> nr.cache, raised |-> TRUE]

draw_leaf_value(Y_mu_pred, X_mu, mm, cache, fill, std, resp) ==
    IF Len(Y_mu_pred) = 0
    THEN [draw |-> <<0>>, linear_params |-> <<>>, cache |-> cache, raised |-> FALSE]
    ELSE LET nr == NormalSampler_random(cache, fill)
             norm == nr.val * std
         IN IF Len(Y_mu_pred) = 1
            THEN [draw |-> <<norm + (Y_mu_pred[1] \div mm)>>, linear_params |-> <<>>,
                  cache |-> nr.cache, raised |-> FALSE]
            ELSE IF resp = "constant"
            THEN [draw |-> <<norm + (mean(Y_mu_pred) \div mm)>>, linear_params |-> <<>>,
                  cache |-> nr.cache, raised |-> FALSE]
            ELSE IF resp = "linear"
            THEN LET lf == linear_fit(X_mu, Y_mu_pred)
                 IN [draw |-> [j \in 1 .. Len(Y_mu_pred) |-> norm + (lf.Y_fit[j] \div mm)],
                     linear_params |-> <<lf.linear_params[1], lf.linear_params[2], norm>>,
                     cache |-> nr.cache, raised |-> FALSE]
            ELSE [draw |-> <<>>, linear_params |-> <<>>, cache |-> nr.cache, raised |-> TRUE]

get_new_idx_data_points(split_value, idx_data_points, selected_predictor, Xm) ==
    LET left_idx == [j \in 1 .. Len(idx_data_points) |->
                        ~isnan(Xm[idx_data_points[j]][selected_predictor])
                        /\ Xm[idx_data_points[j]][selected_predictor] <= split_value]
    IN [left |-> Mask(idx_data_points, left_idx),
        right |-> Mask(idx_data_points, [j \in 1 .. Len(idx_data_points) |-> ~left_idx[j]])]

\* grow_tree; d holds the random draws it consumes: r_var (ssv.rvs), r_split
\* (discrete_uniform_sampler), r_mix (the "mix" coin), fill_left, fill_right (cache refills)
grow_tree(tree, index_leaf_node, enu, Xm, missing, sto, mm, cache, std, resp, d) ==
    LET current_node == get_node(tree, index_leaf_node)
        idx0 == current_node.idx_data_points
        index_selected_predictor == rvs(enu, d.r_var)
        selected_predictor == available_predictors[index_selected_predictor]
        values0 == [j \in 1 .. Len(idx0) |-> Xm[idx0[j]][selected_predictor]]
        notnan == [j \in 1 .. Len(idx0) |-> ~isnan(values0[j])]
        idx_data_points == IF missing THEN Mask(idx0, notnan) ELSE idx0
        available_splitting_values == IF missing THEN Mask(values0, notnan) ELSE values0
    IN IF Len(available_splitting_values) = 0
       THEN [tree_grew |-> FALSE, index_selected_predictor |-> None, tree |-> tree,
             cache |-> cache]
       ELSE
       LET split_value ==
               available_splitting_values[
                   discrete_uniform_sampler(d.r_split, Len(available_splitting_values)) + 1]
           new_split_node == SplitNode(index_leaf_node, selected_predictor, split_value)
           new_idx == get_new_idx_data_points(split_value, idx_data_points,
                                              selected_predictor, Xm)
           resp2 == IF resp = "mix"
                    THEN (IF 2 * d.r_mix >= RandScale THEN "linear" ELSE "constant")
                    ELSE resp
           left == draw_leaf_value(Take(sto, new_idx.left),
                                   [j \in 1 .. Len(new_idx.left) |->
                                       Xm[new_idx.left[j]][selected_predictor]],
                                   mm, cache, d.fill_left, std, resp2)
           right == draw_leaf_value(Take(sto, new_idx.right),
                                    [j \in 1 .. Len(new_idx.right) |->
                                        Xm[new_idx.right[j]][selected_predictor]],
                                    mm, left.cache, d.fill_right, std, resp2)
           new_left_node == LeafNode(get_idx_left_child(index_leaf_node), left.draw,
                                     new_idx.left, left.linear_params)
           new_right_node == LeafNode(get_idx_right_child(index_leaf_node), right.draw,
                                      new_idx.right, right.linear_params)
       IN [tree_grew |-> TRUE, index_selected_predictor |-> index_selected_predictor,
           tree |-> Tree_grow_tree(tree, index_leaf_node, new_split_node,
                                   new_left_node, new_right_node),
           cache |-> right.cache]

----------------------------------------------------------------------------
(* The likelihood oracle and the weights *)

\* self.likelihood_logp: the compiled log-likelihood of the model, here minus the
\* absolute error of the prediction, in tenths of a nat
likelihood_logp(v) == 0 - SeqSum([j \in 1 .. num_observations |-> Abs(Y[j - 1] - v[j - 1])])

\* 1000 * exp(-d / 10)
RECURSIVE ExpNeg(_)
ExpNeg(d) == IF d = 0 THEN 1000 ELSE IF d > 80 THEN 0 ELSE (ExpNeg(d - 1) * 905) \div 1000

\* 10 * log(x / 1000) for x >= 1000
RECURSIVE LogFrom(_, _)
LogFrom(x, k) == IF (x * ExpNeg(k)) \div 1000 <= 1000 THEN k ELSE LogFrom(x, k + 1)

Log(x) == LogFrom(x, 0)

log_num_particles == Log(1000 * num_particles)
indices == [j \in 1 .. (num_particles - 1) |-> j]
len_indices == Len(indices)

init_mean == mean([j \in 1 .. num_observations |-> Y[j - 1]])
init_likelihood == likelihood_logp([r \in Rows |-> init_mean])
init_log_weight == init_likelihood - log_num_particles

Eps == 1   \* the 1e-12 added to every normalized weight, as the smallest unit

\* PGBART.normalize over the list ps of particles
normalize(ps) ==
    LET log_w == [j \in 1 .. Len(ps) |-> ps[j].log_weight]
        log_w_max == MaxOf(log_w)
        w_ == [j \in 1 .. Len(ps) |-> ExpNeg(log_w_max - log_w[j])]
        w_sum == SeqSum(w_)
    IN [W_t |-> log_w_max + Log(w_sum) - log_num_particles,
        normalized_weights |-> [j \in 1 .. Len(ps) |-> (w_[j] * 1000) \div w_sum + Eps]]

\* the outcomes np.random.choice(a, p = weights) can produce
Choice(a, weights) == {a[j] : j \in {i \in 1 .. Len(a) : weights[i] > 0}}

VecAdd(a, b) == [r \in DOMAIN a |-> a[r] + b[r]]
VecSub(a, b) == [r \in DOMAIN a |-> a[r] - b[r]]

----------------------------------------------------------------------------
(* ParticleTree *)

ParticleTree(tree, log_weight, likelihood) ==
    [tree |-> tree, expansion_nodes |-> <<0>>, log_weight |-> log_weight,
     old_likelihood_logp |-> likelihood, used_variates |-> <<>>]

\* the first two entries instead of the last two
LastTwo_first(s) == SubSeq(s, 1, 2)
\* idx_leaf_nodes[-2:]
LastTwo(s) == SubSeq(s, Len(s) - 1, Len(s))

\* a sample_tree_sequential that queues the leaves again when the queue is empty
sample_tree_sequential_requeue(p, enu, prior, Xm, missing, sto, mm, cache, std, resp, d) ==
    IF p.expansion_nodes = <<>>
    THEN [tree_grew |-> FALSE, p |-> [p EXCEPT !.expansion_nodes = p.tree.idx_leaf_nodes],
          cache |-> cache]
    ELSE
    LET index_leaf_node == Head(p.expansion_nodes)
        popped == [p EXCEPT !.expansion_nodes = Tail(p.expansion_nodes)]
        prob_leaf == prior[Depth(get_node(p.tree, index_leaf_node).index)]
    IN IF prob_leaf < d.r_leaf
       THEN LET g == grow_tree(p.tree, index_leaf_node, enu, Xm, missing, sto, mm,
                               cache, std, resp, d)
            IN IF g.tree_grew
               THEN [tree_grew |-> TRUE,
                     p |-> [popped EXCEPT
                              !.tree = g.tree,
                              !.expansion_nodes = @ \o LastTwo(g.tree.idx_leaf_nodes),
                              !.used_variates = Append(@, g.index_selected_predictor)],
                     cache |-> g.cache]
               ELSE [tree_grew |-> FALSE, p |-> popped, cache |-> g.cache]
       ELSE [tree_grew |-> FALSE, p |-> popped, cache |-> cache]

\* ParticleTree.sample_tree_sequential; d.r_leaf is the draw compared with prob_leaf
sample_tree_sequential(p, enu, prior, Xm, missing, sto, mm, cache, std, resp, d) ==
    IF p.expansion_nodes = <<>>
    THEN [tree_grew |-> FALSE, p |-> p, cache |-> cache]
    ELSE
    LET index_leaf_node == Head(p.expansion_nodes)
        popped == [p EXCEPT !.expansion_nodes = Tail(p.expansion_nodes)]
        prob_leaf == prior[Depth(get_node(p.tree, index_leaf_node).index)]
    IN IF prob_leaf < d.r_leaf
       THEN LET g == grow_tree(p.tree, index_leaf_node, enu, Xm, missing, sto, mm,
                               cache, std, resp, d)
            IN IF g.tree_grew
               THEN [tree_grew |-> TRUE,
                     p |-> [popped EXCEPT
                              !.tree = g.tree,
                              !.expansion_nodes = @ \o LastTwo(g.tree.idx_leaf_nodes),
                              !.used_variates = Append(@, g.index_selected_predictor)],
                     cache |-> g.cache]
               ELSE [tree_grew |-> FALSE, p |-> popped, cache |-> g.cache]
       ELSE [tree_grew |-> FALSE, p |-> popped, cache |-> cache]

\* PGBART.update_weight
update_weight(particle, noi, new) ==
    LET new_likelihood == likelihood_logp(VecAdd(noi, predict_output(particle.tree)))
    IN IF new
       THEN [particle EXCEPT !.log_weight = new_likelihood]
       ELSE [particle EXCEPT
                !.log_weight = @ + new_likelihood - particle.old_likelihood_logp,
                !.old_likelihood_logp = new_likelihood]

----------------------------------------------------------------------------
(* The objects of a sweep.  Reference 0 is the object all_particles[tree_id], *)
(* reference j >= 1 the j-th ParticleTree created by init_particles.          *)

Obj(ref) == IF ref = 0 THEN all_particles[tree_id] ELSE objs[ref]

Slots == 0 .. (num_particles - 1)

\* self.all_trees: entry i is the tree object of all_particles[i] (lines 204, 267-270
\* store the very object that the particle owns)
all_trees == [i \in DOMAIN all_particles |-> all_particles[i].tree]

----------------------------------------------------------------------------
(* Inputs *)

Xa == Arr(<<Arr(<<1, 2>>), Arr(<<2, 1>>)>>)
Xb == Arr(<<Arr(<<1, NaN>>), Arr(<<2, 1>>)>>)
Xc == Arr(<<Arr(<<1, NaN>>), Arr(<<2, NaN>>)>>)
Xs == {Xb, Xc}                              \* design matrices of the sampler runs
GrowXs == {Xa, Xb, Xc}                      \* design matrices of the grow_tree runs
Responses == {"constant"}                   \* response modes of the sampler runs
AllResponses == {"constant", "linear", "mix"}

ZeroFill == [j \in 1 .. size |-> 0]
ZeroDraw == [r_leaf |-> 0, r_var |-> 0, r_split |-> 0, r_mix |-> 0,
             fill_left |-> ZeroFill, fill_right |-> ZeroFill]

\* the random draws a call of grow_tree can consume
GrowDraws(cache, resp) ==
    [r_leaf : {0}, r_var : U, r_split : U, r_mix : IF resp = "mix" THEN U ELSE {0},
     fill_left : FillsFor(cache), fill_right : Fills]

\* the random draws a growth step of particle p can consume
StepDraws(p, cache, resp) ==
    IF p.expansion_nodes = <<>> THEN {ZeroDraw}
    ELSE UNION {IF prior_prob_leaf_node[Depth(Head(p.expansion_nodes))] < r
                THEN {[d EXCEPT !.r_leaf = r] : d \in GrowDraws(cache, resp)}
                ELSE {[ZeroDraw EXCEPT !.r_leaf = r]} : r \in U}

\* the cache of self.normal after the m draws of __init__
InitCacheLen == (size - (m % size)) % size

----------------------------------------------------------------------------
(* PGBART: the state after __init__ and the steps of astep *)

\* what __init__ leaves besides the configuration and the normal cache
Constructed ==
    /\ tune = TRUE
    /\ q = [r \in Rows |-> init_mean]
    /\ sum_trees_output = [r \in Rows |-> init_mean]
    /\ sum_trees_output_noi = [r \in Rows |-> 0]
    /\ variable_inclusion = [i \in 0 .. (num_variates - 1) |-> 0]
    /\ alpha_vec = [i \in 0 .. (num_variates - 1) |-> 1]
    /\ ssv = SampleSplittingVariable([i \in 0 .. (num_variates - 1) |-> 1])
    /\ a_tree = init_tree(m - 1, init_mean \div m, [j \in 1 .. num_observations |-> j - 1])
    /\ all_particles = [i \in 0 .. (m - 1) |->
                           ParticleTree(init_tree(i, init_mean \div m,
                                                  [j \in 1 .. num_observations |-> j - 1]),
                                        init_log_weight, init_likelihood)]
    /\ objs = <<>>
    /\ particles = <<>>
    /\ pc = "idle"
    /\ tree_ids = <<>>
    /\ done = 0
    /\ tree_id = None
    /\ t = 0
    /\ slot = 0
    /\ stats = [variable_inclusion |-> <<>>, bart_trees |-> <<>>]
    /\ steps = 0

Init ==
    /\ X \in Xs
    /\ response \in Responses
    /\ max_stages \in 0 .. MaxStagesBound
    /\ normal \in [1 .. InitCacheLen -> NormVals]
    /\ call = [op |-> "none"]
    /\ Constructed

\* the sampling driver ends the tuning phase between two steps
StopTuning ==
    /\ pc = "idle"
    /\ tune
    /\ tune' = FALSE
    /\ UNCHANGED <<X, response, max_stages, q, sum_trees_output, sum_trees_output_noi,
                   variable_inclusion, alpha_vec, ssv, normal, a_tree, all_particles,
                   objs, particles, pc, tree_ids, done, tree_id, t, slot, stats, steps, call>>

\* self.batch[~self.tune]
BatchSize(tuning) == IF tuning THEN batch[1] ELSE batch[2]

\* astep, lines 208-212
StartStep ==
    /\ pc = "idle"
    /\ steps < MaxSteps
    /\ steps' = steps + 1
    /\ sum_trees_output' = q
    /\ variable_inclusion' = [i \in 0 .. (num_variates - 1) |-> 0]
    /\ \E ids \in [1 .. BatchSize(tune) -> 0 .. (m - 1)] : tree_ids' = ids
    /\ done' = 0
    /\ tree_id' = None
    /\ pc' = "loop"
    /\ UNCHANGED <<X, response, max_stages, tune, q, sum_trees_output_noi, alpha_vec,
                   ssv, normal, a_tree, all_particles, objs, particles, t, slot, stats,
                   call>>

\* a sum that leaves the tree being replaced in
SumNoi_stale(sto, reference) == sto

\* line 218
SumNoi(sto, reference) == VecSub(sto, predict_output(reference.tree))

\* init_particles: the particle of the tree, reset
ResetParticle(p) ==
    [p EXCEPT !.log_weight = init_log_weight, !.old_likelihood_logp = init_likelihood]

\* a sweep that runs a round of growth whatever max_stages is
InitSweep_round ==
    /\ pc = "loop"
    /\ done < Len(tree_ids)
    /\ done' = done + 1
    /\ tree_id' = tree_ids[done + 1]
    /\ a_tree' = [a_tree EXCEPT !.tree_id = tree_id']
    /\ objs' = [j \in 1 .. len_indices |->
                   ParticleTree(a_tree', init_log_weight, init_likelihood)]
    /\ particles' = [s \in Slots |-> s]
    /\ sum_trees_output_noi' = SumNoi(sum_trees_output, all_particles[tree_id'])
    /\ all_particles' =
           [all_particles EXCEPT ![tree_id'] =
               update_weight(ResetParticle(@), sum_trees_output_noi', TRUE)]
    /\ t' = 0
    /\ slot' = 1
    /\ pc' = "grow"
    /\ UNCHANGED <<X, response, max_stages, tune, q, sum_trees_output,
                   variable_inclusion, alpha_vec, ssv, normal, tree_ids, stats, steps,
                   call>>

\* astep, lines 213-221, with init_particles
InitSweep ==
    /\ pc = "loop"
    /\ done < Len(tree_ids)
    /\ done' = done + 1
    /\ tree_id' = tree_ids[done + 1]
    /\ a_tree' = [a_tree EXCEPT !.tree_id = tree_id']
    /\ objs' = [j \in 1 .. len_indices |->
                   ParticleTree(a_tree', init_log_weight, init_likelihood)]
    /\ particles' = [s \in Slots |-> s]
    /\ sum_trees_output_noi' = SumNoi(sum_trees_output, all_particles[tree_id'])
    /\ all_particles' =
           [all_particles EXCEPT ![tree_id'] =
               update_weight(ResetParticle(@), sum_trees_output_noi', TRUE)]
    /\ t' = 0
    /\ slot' = 1
    /\ pc' = IF max_stages > 0 THEN "grow" ELSE "final"
    /\ UNCHANGED <<X, response, max_stages, tune, q, sum_trees_output,
                   variable_inclusion, alpha_vec, ssv, normal, tree_ids, stats, steps,
                   call>>

\* the object behind reference ref becomes p
StoreObj(ref, p) ==
    IF ref = 0
    THEN /\ all_particles' = [all_particles EXCEPT ![tree_id] = p]
         /\ objs' = objs
    ELSE /\ objs' = [objs EXCEPT ![ref] = p]
         /\ all_particles' = all_particles

\* a growth step that updates the weight whether or not the tree grew
GrowStep_reweigh ==
    /\ pc = "grow"
    /\ \E d \in StepDraws(Obj(particles[slot]), normal, response) :
          \E r \in {sample_tree_sequential(Obj(particles[slot]), ssv, prior_prob_leaf_node,
                                           X, missing_data, sum_trees_output, m, normal,
                                           mu_std, response, d)} :
             /\ StoreObj(particles[slot], update_weight(r.p, sum_trees_output_noi, FALSE))
             /\ normal' = r.cache
    /\ slot' = IF slot < num_particles - 1 THEN slot + 1 ELSE 1
    /\ pc' = IF slot < num_particles - 1 THEN "grow" ELSE "resample"
    /\ UNCHANGED <<X, response, max_stages, tune, q, sum_trees_output,
                   sum_trees_output_noi, variable_inclusion, alpha_vec, ssv, a_tree,
                   particles, tree_ids, done, tree_id, t, stats, steps, call>>

\* a growth round that runs over all of particles, the tree's own particle included
GrowStep_reference ==
    /\ pc = "grow"
    /\ \E d \in StepDraws(Obj(particles[slot - 1]), normal, response) :
          \E r \in {sample_tree_sequential(Obj(particles[slot - 1]), ssv,
                                           prior_prob_leaf_node, X, missing_data,
                                           sum_trees_output, m, normal, mu_std, response,
                                           d)} :
             /\ StoreObj(particles[slot - 1],
                         IF r.tree_grew
                         THEN update_weight(r.p, sum_trees_output_noi, FALSE)
                         ELSE r.p)
             /\ normal' = r.cache
    /\ slot' = IF slot < num_particles - 1 THEN slot + 1 ELSE 1
    /\ pc' = IF slot < num_particles - 1 THEN "grow" ELSE "resample"
    /\ UNCHANGED <<X, response, max_stages, tune, q, sum_trees_output,
                   sum_trees_output_noi, variable_inclusion, alpha_vec, ssv, a_tree,
                   particles, tree_ids, done, tree_id, t, stats, steps, call>>

\* astep, lines 224-240: the growth step of the particle in one slot of particles[1:]
GrowStep ==
    /\ pc = "grow"
    /\ \E d \in StepDraws(Obj(particles[slot]), normal, response) :
          \E r \in {sample_tree_sequential(Obj(particles[slot]), ssv, prior_prob_leaf_node,
                                           X, missing_data, sum_trees_output, m, normal,
                                           mu_std, response, d)} :
             /\ StoreObj(particles[slot],
                         IF r.tree_grew
                         THEN update_weight(r.p, sum_trees_output_noi, FALSE)
                         ELSE r.p)
             /\ normal' = r.cache
    /\ slot' = IF slot < num_particles - 1 THEN slot + 1 ELSE 1
    /\ pc' = IF slot < num_particles - 1 THEN "grow" ELSE "resample"
    /\ UNCHANGED <<X, response, max_stages, tune, q, sum_trees_output,
                   sum_trees_output_noi, variable_inclusion, alpha_vec, ssv, a_tree,
                   particles, tree_ids, done, tree_id, t, stats, steps, call>>

\* a resampling that assigns every slot, the reference slot included
Resampled_all(parts, new_indices) ==
    [s \in Slots |-> parts[new_indices[IF s = 0 THEN 1 ELSE s]]]

\* line 247: particles[1:] = particles[new_indices]
Resampled(parts, new_indices) ==
    [s \in Slots |-> IF s = 0 THEN parts[0] ELSE parts[new_indices[s]]]

\* a check that stops as soon as one particle has an empty queue
StopIterating_any(ps) == \E j \in 1 .. Len(ps) : ps[j].expansion_nodes = <<>>

\* lines 254-258: all(non_available_nodes_for_expansion), the list holding one 0 for
\* every particle with a non-empty expansion queue
StopIterating(ps) ==
    LET non_available_nodes_for_expansion ==
            Mask([j \in 1 .. Len(ps) |-> 0],
                 [j \in 1 .. Len(ps) |-> ps[j].expansion_nodes # <<>>])
    IN \A j \in 1 .. Len(non_available_nodes_for_expansion) :
           non_available_nodes_for_expansion[j] # 0

\* astep, lines 242-259: normalize, resample, set the weights, check for the end
Resample ==
    /\ pc = "resample"
    /\ LET nz == normalize([j \in 1 .. len_indices |-> Obj(particles[j])])
       IN \E new_indices \in [1 .. len_indices -> Choice(indices, nz.normalized_weights)] :
             LET refs == Resampled(particles, new_indices)
                 live == {refs[s] : s \in 1 .. len_indices}
                 kept == [j \in live \ {0} |-> [objs[j] EXCEPT !.log_weight = nz.W_t]]
                 first == IF 0 \in live
                          THEN [all_particles[tree_id] EXCEPT !.log_weight = nz.W_t]
                          ELSE all_particles[tree_id]
                 ps == [j \in 1 .. len_indices |->
                           IF refs[j] = 0 THEN first ELSE kept[refs[j]]]
             IN /\ particles' = refs
                /\ objs' = kept
                /\ all_particles' = [all_particles EXCEPT ![tree_id] = first]
                /\ pc' = IF StopIterating(ps) \/ t + 1 >= max_stages
                         THEN "final" ELSE "grow"
    /\ t' = t + 1
    /\ UNCHANGED <<X, response, max_stages, tune, q, sum_trees_output,
                   sum_trees_output_noi, variable_inclusion, alpha_vec, ssv, normal,
                   a_tree, tree_ids, done, tree_id, slot, stats, steps, call>>

\* astep, lines 261-262
FinalWeights ==
    /\ pc = "final"
    /\ LET live == {particles[s] : s \in 1 .. len_indices}
       IN /\ objs' = [j \in DOMAIN objs |->
                         IF j \in live
                         THEN [objs[j] EXCEPT !.log_weight = objs[j].old_likelihood_logp]
                         ELSE objs[j]]
          /\ all_particles' =
                 IF 0 \in live
                 THEN [all_particles EXCEPT ![tree_id].log_weight =
                          all_particles[tree_id].old_likelihood_logp]
                 ELSE all_particles
    /\ pc' = "choose"
    /\ UNCHANGED <<X, response, max_stages, tune, q, sum_trees_output,
                   sum_trees_output_noi, variable_inclusion, alpha_vec, ssv, normal,
                   a_tree, particles, tree_ids, done, tree_id, t, slot, stats, steps, call>>

\* a count of the first used predictor only
Increment_first(vec, used) ==
    IF used = <<>> THEN vec ELSE [vec EXCEPT ![Head(used)] = @ + 1]

\* for index in used: vec[index] += 1
RECURSIVE Increment(_, _)
Increment(vec, used) ==
    IF used = <<>> THEN vec
    ELSE Increment([vec EXCEPT ![Head(used)] = @ + 1], Tail(used))

\* lines 273-279
CommitSsv(tuning, enu, w) == IF tuning THEN SampleSplittingVariable(w) ELSE enu
\* an alpha_vec that keeps counting after tuning
CommitAlphaVec_always(tuning, w, used) == Increment(w, used)
CommitAlphaVec(tuning, w, used) == IF tuning THEN Increment(w, used) ELSE w
CommitInclusion(tuning, inclusion, used) ==
    IF tuning THEN inclusion ELSE Increment(inclusion, used)

\* line 269
Accepted(new_particle) ==
    [new_particle EXCEPT !.log_weight = new_particle.old_likelihood_logp - log_num_particles]

\* astep, lines 264-279: draw the winner and commit it
Commit ==
    /\ pc = "choose"
    /\ LET nz == normalize([j \in 1 .. num_particles |-> Obj(particles[j - 1])])
       IN \E w \in Choice([j \in 1 .. num_particles |-> j - 1], nz.normalized_weights) :
             LET new_particle == Obj(particles[w])
             IN /\ all_particles' = [all_particles EXCEPT ![tree_id] = Accepted(new_particle)]
                /\ sum_trees_output' =
                       VecAdd(sum_trees_output_noi, predict_output(new_particle.tree))
                /\ ssv' = CommitSsv(tune, ssv, alpha_vec)
                /\ alpha_vec' = CommitAlphaVec(tune, alpha_vec, new_particle.used_variates)
                /\ variable_inclusion' =
                       CommitInclusion(tune, variable_inclusion, new_particle.used_variates)
    /\ objs' = <<>>
    /\ particles' = <<>>
    /\ pc' = "loop"
    /\ UNCHANGED <<X, response, max_stages, tune, q, sum_trees_output_noi, normal,
                   a_tree, tree_ids, done, tree_id, t, slot, stats, steps, call>>

\* astep, lines 281-283
Return ==
    /\ pc = "loop"
    /\ done = Len(tree_ids)
    /\ stats' = [variable_inclusion |-> variable_inclusion, bart_trees |-> all_trees]
    /\ q' = sum_trees_output
    /\ pc' = "idle"
    /\ UNCHANGED <<X, response, max_stages, tune, sum_trees_output, sum_trees_output_noi,
                   variable_inclusion, alpha_vec, ssv, normal, a_tree, all_particles,
                   objs, particles, tree_ids, done, tree_id, t, slot, steps, call>>

Next ==
    \/ StopTuning
    \/ StartStep
    \/ InitSweep
    \/ GrowStep
    \/ Resample
    \/ FinalWeights
    \/ Commit
    \/ Return

Spec == Init /\ [][Next]_vars

----------------------------------------------------------------------------
(* draw_leaf_value on its own: calls with residual vectors of every length *)

SeedCaches == UNION {[1 .. n -> SeedVals] : n \in 0 .. size}
Residuals == UNION {[1 .. n -> {0, 2, 4}] : n \in 0 .. MaxResiduals}

InitLeaf ==
    /\ X = Xa
    /\ response = "constant"
    /\ max_stages = 0
    /\ normal \in SeedCaches
    /\ call = [op |-> "none"]
    /\ Constructed

DrawLeafValue ==
    /\ \E Y_mu_pred \in Residuals, mm \in {1, 2}, resp \in AllResponses,
          fill \in FillsFor(normal) :
          LET X_mu == [j \in 1 .. Len(Y_mu_pred) |-> j]
              r == draw_leaf_value(Y_mu_pred, X_mu, mm, normal, fill, mu_std, resp)
          IN /\ call' = [op |-> "draw_leaf_value", Y_mu_pred |-> Y_mu_pred, m |-> mm,
                         response |-> resp, cache |-> normal, draw |-> r.draw,
                         linear_params |-> r.linear_params, raised |-> r.raised]
             /\ normal' = r.cache
    /\ UNCHANGED <<X, response, max_stages, tune, q, sum_trees_output,
                   sum_trees_output_noi, variable_inclusion, alpha_vec, ssv, a_tree,
                   all_particles, objs, particles, pc, tree_ids, done, tree_id, t, slot, stats,
                   steps>>

SpecLeaf == InitLeaf /\ [][DrawLeafValue]_vars

----------------------------------------------------------------------------
(* grow_tree on its own: any sequence of grows on the leaves of one tree *)

InitGrow ==
    /\ X \in GrowXs
    /\ response \in AllResponses
    /\ max_stages = 0
    /\ normal = <<>>
    /\ call = [op |-> "init_tree", tree_grew |-> FALSE, index_leaf_node |-> 0,
               tree |-> init_tree(0, init_mean \div m,
                                  [j \in 1 .. num_observations |-> j - 1])]
    /\ Constructed

GrowTree ==
    /\ steps < MaxGrows
    /\ steps' = steps + 1
    /\ \E index_leaf_node \in Range(call.tree.idx_leaf_nodes),
          d \in GrowDraws(normal, response) :
          LET g == grow_tree(call.tree, index_leaf_node, ssv, X, missing_data, q, m,
                             normal, mu_std, response, d)
          IN /\ call' = [op |-> "grow_tree", tree_grew |-> g.tree_grew,
                         index_leaf_node |-> index_leaf_node, tree |-> g.tree]
             /\ normal' = g.cache
    /\ UNCHANGED <<X, response, max_stages, tune, q, sum_trees_output,
                   sum_trees_output_noi, variable_inclusion, alpha_vec, ssv, a_tree,
                   all_particles, objs, particles, pc, tree_ids, done, tree_id, t, slot, stats>>

SpecGrow == InitGrow /\ [][GrowTree]_vars

----------------------------------------------------------------------------
(* Claims *)

Leaves(tree) == [j \in 1 .. Len(tree.idx_leaf_nodes) |-> get_node(tree, tree.idx_leaf_nodes[j])]

\* the number of (leaf, position) places where a row is listed
Places(tree, row) ==
    Cardinality({<<j, i>> \in (1 .. Len(tree.idx_leaf_nodes)) \X (1 .. num_observations) :
                    /\ i <= Len(Leaves(tree)[j].idx_data_points)
                    /\ Leaves(tree)[j].idx_data_points[i] = row})

\* C1: after any sequence of grow_tree calls on a tree, whether they grow or abort and
\* whether or not the design matrix has missing entries, every training row is listed
\* in exactly one leaf of the tree.
C1_Partition ==
    call.op \in {"init_tree", "grow_tree"} => \A row \in Rows : Places(call.tree, row) = 1

Popped(cache, after) ==
    IF cache # <<>>
    THEN {cache[Len(cache)]}
    ELSE {v \in NormVals : \E f \in Fills : f[size] = v /\ after = SubSeq(f, 1, size - 1)}

----------------------------------------------------------------------------
(* Claims about the sampling step *)

InSweep == pc \in {"grow", "resample", "final", "choose"}
Committed == pc = "loop" /\ done > 0

RECURSIVE SumOfTrees(_, _)
SumOfTrees(trees, i) ==
    IF i < 0 THEN [r \in Rows |-> 0]
    ELSE VecAdd(predict_output(trees[i]), SumOfTrees(trees, i - 1))

ObjNext(ref) == IF ref = 0 THEN all_particles'[tree_id'] ELSE objs'[ref]

\* C3: the total prediction equals the sum of the predictions of the accepted trees
\* when a step starts, after every commit of a sweep inside the step, and in the
\* vector the step returns, also when a tree id is drawn twice in the batch.
C3_TotalIsSum ==
    /\ pc = "loop" => sum_trees_output = SumOfTrees(all_trees, m - 1)
    /\ pc = "idle" => q = SumOfTrees(all_trees, m - 1)

\* C3 witness: a batch that drew the same tree id twice has committed both sweeps, the
\* tree has been split and the total has changed
C3_Witness ==
    /\ Committed
    /\ done = 2
    /\ tree_ids[1] = tree_ids[2]
    /\ Len(all_trees[tree_id].idx_leaf_nodes) > 1
    /\ sum_trees_output # q

\* C4: at every point of a sweep the slots hold different particle objects, so no two
\* slots share a tree or an expansion queue.
C4_Independent ==
    InSweep => \A i, j \in Slots : i # j => particles[i] # particles[j]

\* C5: throughout a sweep slot 0 holds the reference particle, no other slot ever
\* holds it, and no step before the final selection changes its tree, its expansion
\* queue or its used-predictor list.
C5_ReferenceStays ==
    [][/\ pc' \in {"grow", "resample", "final", "choose"}
          => /\ particles'[0] = 0
             /\ \A s \in 1 .. (num_particles - 1) : particles'[s] # 0
       /\ pc \in {"grow", "resample", "final"}
          => /\ all_particles'[tree_id].tree = all_particles[tree_id].tree
             /\ all_particles'[tree_id].expansion_nodes
                    = all_particles[tree_id].expansion_nodes
             /\ all_particles'[tree_id].used_variates
                    = all_particles[tree_id].used_variates]_vars

\* C5 witness: at the final selection of a sweep whose reference particle is a split
\* tree, after a resampling that copied one particle into both other slots
C5_Witness ==
    /\ pc = "choose"
    /\ t >= 1
    /\ Len(all_particles[tree_id].tree.idx_leaf_nodes) > 1
    /\ particles[1] = particles[2]
    /\ Len(objs[particles[1]].tree.idx_leaf_nodes) > 1

AllQueuesEmpty ==
    \A s \in 1 .. (num_particles - 1) : Obj(particles[s]).expansion_nodes = <<>>

\* the guard of the step of a sweep at each position: the loop positions are in
\* range and the two random choices have an outcome to draw
CanStep ==
    /\ pc = "grow" => (slot \in 1 .. (num_particles - 1) /\ particles[slot] \in DOMAIN objs)
    /\ pc = "resample"
       => Choice(indices,
                 normalize([j \in 1 .. len_indices |-> Obj(particles[j])]).normalized_weights)
              # {}
    /\ pc = "choose"
       => Choice([j \in 1 .. num_particles |-> j - 1],
                 normalize([j \in 1 .. num_particles |->
                               Obj(particles[j - 1])]).normalized_weights)
              # {}

\* C6: every sweep terminates: no step of it is blocked before its commit and it runs
\* at most max_stages rounds; the round loop ends after a round exactly when every
\* particle of slots 1..P-1 has an empty queue or max_stages rounds have run, so it
\* never ends early while a queue is non-empty and never goes on once all are empty.
C6_Terminates ==
    /\ t <= max_stages
    /\ InSweep => CanStep
    /\ pc \in {"grow", "resample"} => t < max_stages
    /\ pc = "final" => (AllQueuesEmpty \/ t = max_stages)
    /\ (pc = "grow" /\ slot = 1 /\ t > 0) => ~AllQueuesEmpty

\* C6 witness: the loop has ended before max_stages rounds, every queue being empty
C6_Witness ==
    /\ pc = "final"
    /\ 0 < t
    /\ t < max_stages
    /\ \A s \in 1 .. (num_particles - 1) : Obj(particles[s]).expansion_nodes = <<>>

SameCdf(enu1, enu2) ==
    /\ Len(enu1) = Len(enu2)
    /\ \A j \in 1 .. Len(enu1) :
          /\ enu1[j].i = enu2[j].i
          /\ enu1[j].num * enu2[j].den = enu2[j].num * enu1[j].den

\* C7: while tuning, after every commit the split-variable sampler samples from the
\* normalized cumulative sums of the current weight vector.
C7_Rebuilt ==
    (Committed /\ tune) => SameCdf(ssv, SampleSplittingVariable(alpha_vec))

Zeros == [i \in 0 .. (num_variates - 1) |-> 0]

\* C8: the weight vector and the sampler change only at a commit while tuning; a step
\* run while tuning returns variable_inclusion all zeros; outside tuning
\* variable_inclusion starts at zero and each commit adds one per entry of the
\* winner's used-predictor list, and nothing else changes it.
C8_OnlyAtCommit ==
    [][/\ (alpha_vec' # alpha_vec \/ ssv' # ssv) => (pc = "choose" /\ tune)
       /\ (pc = "idle" /\ pc' = "loop") => variable_inclusion' = Zeros
       /\ (pc = "loop" /\ pc' = "idle" /\ tune) => stats'.variable_inclusion = Zeros
       /\ (pc = "loop" /\ pc' = "idle") => stats'.variable_inclusion = variable_inclusion
       /\ (pc = "choose" /\ ~tune)
          => variable_inclusion'
                 = Increment(variable_inclusion, all_particles'[tree_id].used_variates)
       /\ variable_inclusion' # variable_inclusion => pc \in {"idle", "choose"}]_vars

\* C8 witness: a step outside tuning has returned a variable_inclusion that counts
\* the splits of two committed winners
C8_Witness ==
    /\ pc = "idle"
    /\ steps > 0
    /\ ~tune
    /\ stats.variable_inclusion[0] >= 2
    /\ alpha_vec = [i \in 0 .. (num_variates - 1) |-> 1]

\* C9: after every commit the accepted particle's log-weight is the likelihood of
\* noi + its tree's prediction, minus log(P).
C9_AcceptedWeight ==
    Committed
        => all_particles[tree_id].log_weight
               = likelihood_logp(VecAdd(sum_trees_output_noi,
                                        predict_output(all_particles[tree_id].tree)))
                 - log_num_particles

\* C10: when the winner is drawn, the log-weight of each of the P particles is the
\* likelihood of noi + that particle's own tree prediction.
C10_AbsoluteFit ==
    pc = "choose"
        => \A s \in Slots :
              Obj(particles[s]).log_weight
                  = likelihood_logp(VecAdd(sum_trees_output_noi,
                                           predict_output(Obj(particles[s]).tree)))

\* C11: no tree committed as the accepted state of a sweep contains a leaf whose
\* row-index set is empty.
C11_NoOrphanAccepted ==
    Committed
        => \A j \in 1 .. Len(all_trees[tree_id].idx_leaf_nodes) :
               Leaves(all_trees[tree_id])[j].idx_data_points # <<>>

----------------------------------------------------------------------------
(* The constructor on any configuration: PGBART.__init__ followed by steps *)

MaxConfigParticles == 3   \* num_particles is drawn from -1 .. MaxConfigParticles
MaxConfigWeight == 2      \* each entry of split_prior is drawn from 0 .. MaxConfigWeight
MaxConfigRows == 2        \* the number of training rows is drawn from 0 .. MaxConfigRows

Configs ==
    [num_particles : (0 - 1) .. MaxConfigParticles,
     split_prior : [0 .. 1 -> 0 .. MaxConfigWeight],
     num_observations : 0 .. MaxConfigRows]

\* PGBART.__init__ on configuration cfg: the attributes it computes from the three
\* settings.  No statement of lines 128-205 tests them: np.log of a number <= 0, the
\* division of the weight array by its zero sum and the mean of an empty array warn
\* and yield -inf or nan, here "nan"; range(1, num_particles) is empty for
\* num_particles <= 1.
PGBART_init(cfg) ==
    [raised |-> FALSE,
     log_num_particles |-> IF cfg.num_particles <= 0 THEN "nan"
                           ELSE Log(1000 * cfg.num_particles),
     indices |-> [j \in 1 .. (cfg.num_particles - 1) |-> j],
     enu |-> IF CumSum(cfg.split_prior, 1) = 0 THEN "nan"
             ELSE SampleSplittingVariable(cfg.split_prior),
     init_mean |-> IF cfg.num_observations = 0 THEN "nan"
                   ELSE SeqSum([j \in 1 .. cfg.num_observations |-> 2 * j])
                        \div cfg.num_observations]

InitConfig ==
    /\ X = Xa
    /\ response = "constant"
    /\ max_stages = 0
    /\ normal = <<>>
    /\ \E cfg \in Configs : call = [op |-> "config", cfg |-> cfg]
    /\ Constructed

\* the call of the constructor
Construct ==
    /\ call.op = "config"
    /\ call' = [op |-> "__init__", cfg |-> call.cfg, self |-> PGBART_init(call.cfg)]
    /\ UNCHANGED <<X, response, max_stages, tune, q, sum_trees_output,
                   sum_trees_output_noi, variable_inclusion, alpha_vec, ssv, normal, a_tree,
                   all_particles, objs, particles, pc, tree_ids, done, tree_id, t, slot,
                   stats, steps>>

\* astep is entered on the constructed sampler (lines 207-212 test nothing)
ConfigStep ==
    /\ call.op \in {"__init__", "astep"}
    /\ ~call.self.raised
    /\ steps < MaxSteps
    /\ steps' = steps + 1
    /\ call' = [call EXCEPT !.op = "astep"]
    /\ UNCHANGED <<X, response, max_stages, tune, q, sum_trees_output,
                   sum_trees_output_noi, variable_inclusion, alpha_vec, ssv, normal, a_tree,
                   all_particles, objs, particles, pc, tree_ids, done, tree_id, t, slot,
                   stats>>

SpecConfig == InitConfig /\ [][Construct \/ ConfigStep]_vars

ConfigurationError(cfg) ==
    \/ cfg.num_particles <= 0
    \/ CumSum(cfg.split_prior, 1) = 0
    \/ cfg.num_observations = 0

\* C12: a configuration error (nonpositive particle count, zero-sum predictor
\* weights, empty training data) makes the constructor raise, and no sampling step
\* runs with such a configuration.
C12_ConfigFatal ==
    (call.op \in {"__init__", "astep"} /\ ConfigurationError(call.cfg))
        => (call.self.raised /\ call.op # "astep")

----------------------------------------------------------------------------
(* A sweep whose likelihood oracle can fail.  A float is [fin, v]: a finite   *)
(* number v, or, with fin false, -inf (v = -1), nan (v = 0) or +inf (v = 1). *)

Fin(v) == [fin |-> TRUE, v |-> v]
NegInf == [fin |-> FALSE, v |-> 0 - 1]
NanF == [fin |-> FALSE, v |-> 0]
PosInf == [fin |-> FALSE, v |-> 1]
IsNan(a) == a = NanF

\* float addition, subtraction and maximum (np.max hands a nan on)
FAdd(a, b) ==
    IF a.fin /\ b.fin THEN Fin(a.v + b.v)
    ELSE IF IsNan(a) \/ IsNan(b) THEN NanF
    ELSE IF a.fin THEN b
    ELSE IF b.fin THEN a
    ELSE IF a = b THEN a ELSE NanF

FNeg(a) == IF a.fin THEN Fin(0 - a.v) ELSE [fin |-> FALSE, v |-> 0 - a.v]
FSub(a, b) == FAdd(a, FNeg(b))

FMax(s) ==
    IF \E j \in 1 .. Len(s) : IsNan(s[j]) THEN NanF
    ELSE IF \E j \in 1 .. Len(s) : s[j] = PosInf THEN PosInf
    ELSE IF \A j \in 1 .. Len(s) : s[j] = NegInf THEN NegInf
    ELSE Fin(MaxOf(Mask([j \in 1 .. Len(s) |-> IF s[j].fin THEN s[j].v ELSE 0],
                        [j \in 1 .. Len(s) |-> s[j].fin])))

\* np.exp of a float that is <= 0, -inf or nan, in thousandths
FExp(a) == IF a.fin THEN Fin(ExpNeg(0 - a.v)) ELSE IF a = NegInf THEN Fin(0) ELSE a

\* PGBART.normalize over float log-weights; nan tells that the weights hold a nan
FNormalize(ps) ==
    LET log_w == [j \in 1 .. Len(ps) |-> ps[j].log_weight]
        log_w_max == FMax(log_w)
        w_ == [j \in 1 .. Len(ps) |-> FExp(FSub(log_w[j], log_w_max))]
        isnan_ == \E j \in 1 .. Len(ps) : ~w_[j].fin
        w_sum == IF isnan_ THEN 0 ELSE SeqSum([j \in 1 .. Len(ps) |-> w_[j].v])
    IN [nan |-> isnan_,
        W_t |-> IF isnan_ THEN NanF
                ELSE FAdd(log_w_max, Fin(Log(w_sum) - log_num_particles)),
        normalized_weights |->
            [j \in 1 .. Len(ps) |->
                IF isnan_ THEN 0 ELSE (w_[j].v * 1000) \div w_sum + Eps]]

\* PGBART.update_weight with the value new_likelihood the oracle returned
update_weight_float(particle, new_likelihood, new) ==
    IF new
    THEN [particle EXCEPT !.log_weight = new_likelihood]
    ELSE [particle EXCEPT
             !.log_weight = FAdd(@, FSub(new_likelihood, particle.old_likelihood_logp)),
             !.old_likelihood_logp = new_likelihood]

\* what an evaluation of the oracle can give where the model's likelihood is v
OracleVals(v) == {Fin(v), NegInf, NanF, PosInf}

\* the likelihood of particle p's tree, as the model's oracle computes it
Likelihood(p, noi) == likelihood_logp(VecAdd(noi, predict_output(p.tree)))

\* the record of the sweep: failed, an evaluation of the oracle raised or was not
\* finite; folded, a resampling went on over weights holding a non-finite value
Failing(c, v) == [c EXCEPT !.failed = @ \/ ~v.fin]

OracleInit ==
    /\ X = Xc
    /\ response = "constant"
    /\ max_stages \in 0 .. MaxStagesBound
    /\ normal \in [1 .. InitCacheLen -> NormVals]
    /\ call = [op |-> "oracle", failed |-> FALSE, folded |-> FALSE]
    /\ Constructed

\* astep, lines 213-221, with init_particles
OracleInitSweep ==
    /\ pc = "loop"
    /\ done < Len(tree_ids)
    /\ done' = done + 1
    /\ tree_id' = tree_ids[done + 1]
    /\ a_tree' = [a_tree EXCEPT !.tree_id = tree_id']
    /\ objs' = [j \in 1 .. len_indices |->
                   ParticleTree(a_tree', Fin(init_log_weight), Fin(init_likelihood))]
    /\ particles' = [s \in Slots |-> s]
    /\ sum_trees_output_noi' = SumNoi(sum_trees_output, all_particles[tree_id'])
    /\ t' = 0
    /\ slot' = 1
    /\ LET p == [all_particles[tree_id'] EXCEPT !.log_weight = Fin(init_log_weight),
                                                !.old_likelihood_logp = Fin(init_likelihood)]
       IN \/ \E v \in OracleVals(Likelihood(p, sum_trees_output_noi')) :
                /\ all_particles' = [all_particles EXCEPT ![tree_id'] =
                                        update_weight_float(p, v, TRUE)]
                /\ call' = Failing(call, v)
                /\ pc' = IF max_stages > 0 THEN "grow" ELSE "final"
          \/ /\ all_particles' = [all_particles EXCEPT ![tree_id'] = p]
             /\ call' = [call EXCEPT !.failed = TRUE]
             /\ pc' = "error"
    /\ UNCHANGED <<X, response, max_stages, tune, q, sum_trees_output,
                   variable_inclusion, alpha_vec, ssv, normal, tree_ids, stats, steps>>

\* astep, lines 224-240
OracleGrowStep ==
    /\ pc = "grow"
    /\ \E d \in StepDraws(Obj(particles[slot]), normal, response) :
          \E r \in {sample_tree_sequential(Obj(particles[slot]), ssv, prior_prob_leaf_node,
                                           X, missing_data, sum_trees_output, m, normal,
                                           mu_std, response, d)} :
             /\ normal' = r.cache
             /\ IF r.tree_grew
                THEN \/ \E v \in OracleVals(Likelihood(r.p, sum_trees_output_noi)) :
                           /\ StoreObj(particles[slot], update_weight_float(r.p, v, FALSE))
                           /\ call' = Failing(call, v)
                           /\ pc' = IF slot < num_particles - 1 THEN "grow" ELSE "resample"
                     \/ /\ StoreObj(particles[slot], r.p)
                        /\ call' = [call EXCEPT !.failed = TRUE]
                        /\ pc' = "error"
                ELSE /\ StoreObj(particles[slot], r.p)
                     /\ call' = call
                     /\ pc' = IF slot < num_particles - 1 THEN "grow" ELSE "resample"
    /\ slot' = IF slot < num_particles - 1 THEN slot + 1 ELSE 1
    /\ UNCHANGED <<X, response, max_stages, tune, q, sum_trees_output,
                   sum_trees_output_noi, variable_inclusion, alpha_vec, ssv, a_tree,
                   particles, tree_ids, done, tree_id, t, stats, steps>>

\* astep, lines 242-259; np.random.choice raises on probabilities holding a nan
OracleResample ==
    /\ pc = "resample"
    /\ \E nz \in {FNormalize([j \in 1 .. len_indices |-> Obj(particles[j])])} :
          IF nz.nan
          THEN /\ pc' = "error"
               /\ UNCHANGED <<particles, objs, all_particles, t, call>>
          ELSE \E new_indices \in
                      [1 .. len_indices -> Choice(indices, nz.normalized_weights)] :
                  LET refs == Resampled(particles, new_indices)
                      live == {refs[s] : s \in 1 .. len_indices}
                      kept == [j \in live \ {0} |-> [objs[j] EXCEPT !.log_weight = nz.W_t]]
                      first == IF 0 \in live
                               THEN [all_particles[tree_id] EXCEPT !.log_weight = nz.W_t]
                               ELSE all_particles[tree_id]
                      ps == [j \in 1 .. len_indices |->
                                IF refs[j] = 0 THEN first ELSE kept[refs[j]]]
                  IN /\ particles' = refs
                     /\ objs' = kept
                     /\ all_particles' = [all_particles EXCEPT ![tree_id] = first]
                     /\ pc' = IF StopIterating(ps) \/ t + 1 >= max_stages
                              THEN "final" ELSE "grow"
                     /\ t' = t + 1
                     /\ call' = [call EXCEPT !.folded =
                                    @ \/ \E j \in 1 .. len_indices :
                                             ~Obj(particles[j]).log_weight.fin]
    /\ UNCHANGED <<X, response, max_stages, tune, q, sum_trees_output,
                   sum_trees_output_noi, variable_inclusion, alpha_vec, ssv, normal,
                   a_tree, tree_ids, done, tree_id, slot, stats, steps>>

\* astep, lines 261-262
OracleFinalWeights == FinalWeights

\* astep, lines 264-279
OracleCommit ==
    /\ pc = "choose"
    /\ \E nz \in {FNormalize([j \in 1 .. num_particles |-> Obj(particles[j - 1])])} :
          IF nz.nan
          THEN /\ pc' = "error"
               /\ UNCHANGED <<all_particles, sum_trees_output, ssv, alpha_vec,
                              variable_inclusion, objs, particles>>
          ELSE \E w \in Choice([j \in 1 .. num_particles |-> j - 1],
                               nz.normalized_weights) :
                  LET new_particle == Obj(particles[w])
                  IN /\ all_particles' =
                            [all_particles EXCEPT ![tree_id] =
                                [new_particle EXCEPT !.log_weight =
                                    FSub(new_particle.old_likelihood_logp,
                                         Fin(log_num_particles))]]
                     /\ sum_trees_output' =
                            VecAdd(sum_trees_output_noi, predict_output(new_particle.tree))
                     /\ ssv' = CommitSsv(tune, ssv, alpha_vec)
                     /\ alpha_vec' =
                            CommitAlphaVec(tune, alpha_vec, new_particle.used_variates)
                     /\ variable_inclusion' =
                            CommitInclusion(tune, variable_inclusion,
                                            new_particle.used_variates)
                     /\ objs' = <<>>
                     /\ particles' = <<>>
                     /\ pc' = "loop"
    /\ UNCHANGED <<X, response, max_stages, tune, q, sum_trees_output_noi, normal,
                   a_tree, tree_ids, done, tree_id, t, slot, stats, steps, call>>

NextOracle ==
    \/ StartStep
    \/ OracleInitSweep
    \/ OracleGrowStep
    \/ OracleResample
    \/ OracleFinalWeights
    \/ OracleCommit
    \/ Return

SpecOracle == OracleInit /\ [][NextOracle]_vars

\* C13: once an evaluation of the likelihood oracle in a sweep raised or returned a
\* non-finite value, the sweep commits no winner, leaves the total prediction as it
\* was, and no resampling goes on over weights that hold the non-finite value.
C13_OracleFatal ==
    call.failed
        => /\ ~Committed
           /\ pc # "idle"
           /\ sum_trees_output = q
           /\ ~call.folded

SingleLeaf(tree) == tree.idx_leaf_nodes = <<0>> /\ DOMAIN tree.tree_structure = {0}

\* C14: with max_stages = 0 a sweep takes no growth step and no resampling, every
\* particle and every accepted tree stays a single leaf, the final selection is over
\* all P slots, and the commit accepts the tree of one of the P particles and
\* replaces the old tree's prediction by the winner's in the total.
C14_ZeroStages ==
    [][max_stages = 0
         => /\ pc' \notin {"grow", "resample"}
            /\ \A i \in DOMAIN all_particles' : SingleLeaf(all_particles'[i].tree)
            /\ \A j \in DOMAIN objs' : SingleLeaf(objs'[j].tree)
            /\ pc' = "choose" => DOMAIN particles' = Slots
            /\ (pc = "choose" /\ pc' = "loop")
                  => \E s \in Slots :
                        /\ all_particles'[tree_id].tree = Obj(particles[s]).tree
                        /\ sum_trees_output' =
                               [r \in Rows |->
                                   sum_trees_output[r]
                                   - predict_output(all_particles[tree_id].tree)[r]
                                   + predict_output(Obj(particles[s]).tree)[r]]]_vars

C14_Witness == max_stages = 0 /\ Committed /\ done = 2 /\ ~tune

\* the growth step of the particle in the current slot, for every draw it can consume
StepResults ==
    {sample_tree_sequential(Obj(particles[slot]), ssv, prior_prob_leaf_node, X,
                            missing_data, sum_trees_output, m, normal, mu_std, response, d) :
        d \in StepDraws(Obj(particles[slot]), normal, response)}

\* C15: a sample_tree_sequential call on a particle whose expansion queue is empty
\* returns false and leaves the particle (tree, queue, weight, last likelihood,
\* used-predictor list) unchanged; and through a sweep a particle whose queue is
\* empty keeps an empty queue, its tree, its last likelihood and its used list.
C15_DoneStaysDone ==
    [][/\ (pc = "grow" /\ Obj(particles[slot]).expansion_nodes = <<>>)
            => /\ \A r \in StepResults : ~r.tree_grew /\ r.p = Obj(particles[slot])
               /\ ObjNext(particles[slot]) = Obj(particles[slot])
       /\ (InSweep /\ pc' \in {"grow", "resample", "final", "choose"})
            => \A ref \in DOMAIN objs \cap DOMAIN objs' :
                  objs[ref].expansion_nodes = <<>>
                      => /\ objs'[ref].expansion_nodes = <<>>
                         /\ objs'[ref].tree = objs[ref].tree
                         /\ objs'[ref].used_variates = objs[ref].used_variates
                         /\ objs'[ref].old_likelihood_logp = objs[ref].old_likelihood_logp]_vars

C15_Witness ==
    /\ pc = "grow" /\ t = 1 /\ slot = 2
    /\ Obj(particles[1]).expansion_nodes = <<>>
    /\ Obj(particles[2]).expansion_nodes # <<>>

\* C16: a growth step on a non-empty queue that does not grow the tree leaves the
\* particle's tree, log-weight, last likelihood (no oracle call) and used-predictor
\* list unchanged and only removes the popped node from the queue; after any growth
\* step every node left in the queue is greater than the popped one, so the popped
\* node is not queued again.
C16_NoGrowth ==
    [][(pc = "grow" /\ Obj(particles[slot]).expansion_nodes # <<>>)
          => /\ ObjNext(particles[slot]).tree = Obj(particles[slot]).tree
                   => ObjNext(particles[slot])
                          = [Obj(particles[slot]) EXCEPT !.expansion_nodes = Tail(@)]
             /\ \A j \in 1 .. Len(ObjNext(particles[slot]).expansion_nodes) :
                   ObjNext(particles[slot]).expansion_nodes[j]
                       > Head(Obj(particles[slot]).expansion_nodes)]_vars

C16_Witness ==
    /\ pc = "grow" /\ t = 0 /\ slot = 2
    /\ Obj(particles[1]) = [objs[2] EXCEPT !.expansion_nodes = <<>>]
    /\ objs[2].expansion_nodes = <<0>>

----------------------------------------------------------------------------
(* SampleSplittingVariable on its own, with the rounding of float arithmetic. *)
(* A float in [0, 1] is a multiple of 1 / FloatScale; a quotient is rounded   *)
(* to the nearest one, and np.random.random() draws k / FloatScale, k in      *)
(* 0 .. FloatScale - 1 (2^53 in the source's doubles).                        *)

FloatScale == 16     \* number of floats in [0, 1)
MaxPredictors == 7   \* length of the weight vector
MaxRvsWeight == 1    \* each weight is drawn from 0 .. MaxRvsWeight

\* a / b rounded to the nearest float
FloatDiv(a, b) == (2 * a * FloatScale + b) \div (2 * b)

\* list(enumerate(np.cumsum(alpha_vec / alpha_vec.sum())))
SampleSplittingVariable_enu(w) ==
    LET n == Cardinality(DOMAIN w)
        quot == [i \in 0 .. (n - 1) |-> FloatDiv(w[i], CumSum(w, n - 1))]
    IN [j \in 1 .. n |-> [i |-> j - 1, v |-> CumSum(quot, j - 1)]]

\* SampleSplittingVariable.rvs with the draw r: the loop falling through returns None
RECURSIVE SampleSplittingVariable_rvs(_, _)
SampleSplittingVariable_rvs(enu, r) ==
    IF enu = <<>> THEN None
    ELSE IF r <= Head(enu).v THEN Head(enu).i
    ELSE SampleSplittingVariable_rvs(Tail(enu), r)

WeightVectors ==
    UNION {{w \in [0 .. (n - 1) -> 0 .. MaxRvsWeight] : CumSum(w, n - 1) > 0} :
              n \in 1 .. MaxPredictors}

InitRvs ==
    /\ X = Xa
    /\ response = "constant"
    /\ max_stages = 0
    /\ normal = <<>>
    /\ \E w \in WeightVectors, r \in 0 .. (FloatScale - 1) :
          call = [op |-> "SampleSplittingVariable", w |-> w, r |-> r,
                  enu |-> SampleSplittingVariable_enu(w), i |-> None]
    /\ Constructed

Rvs ==
    /\ call.op = "SampleSplittingVariable"
    /\ call' = [call EXCEPT !.op = "rvs", !.i = SampleSplittingVariable_rvs(call.enu, call.r)]
    /\ UNCHANGED <<X, response, max_stages, tune, q, sum_trees_output,
                   sum_trees_output_noi, variable_inclusion, alpha_vec, ssv, normal, a_tree,
                   all_particles, objs, particles, pc, tree_ids, done, tree_id, t, slot,
                   stats, steps>>

SpecRvs == InitRvs /\ [][Rvs]_vars

\* C17: for every nonnegative weight vector with positive sum and every uniform draw
\* r in [0, 1), rvs returns a predictor index in 0 .. n - 1, the smallest i whose
\* cdf entry is >= r.
C17_SmallestIndex ==
    call.op = "rvs"
        => /\ call.i \in 0 .. (Len(call.enu) - 1)
           /\ call.r <= call.enu[call.i + 1].v
           /\ \A j \in 1 .. call.i : call.r > call.enu[j].v

\* the expansion queue of particle o holds leaves of its tree, in increasing order
QueueInOrder(o) ==
    /\ \A j \in 1 .. Len(o.expansion_nodes) :
          o.expansion_nodes[j] \in Range(o.tree.idx_leaf_nodes)
    /\ \A j \in 1 .. (Len(o.expansion_nodes) - 1) :
          o.expansion_nodes[j] < o.expansion_nodes[j + 1]

\* C18: after any number of growth steps the expansion queue of every particle
\* holds only indices of current leaves of the particle's own tree and is strictly
\* increasing from front to back (so it holds no index twice).
C18_QueueOrder ==
    /\ \A ref \in DOMAIN objs : QueueInOrder(objs[ref])
    /\ \A i \in DOMAIN all_particles : QueueInOrder(all_particles[i])

C18_Witness == \E ref \in DOMAIN objs : Len(objs[ref].expansion_nodes) = 3

----------------------------------------------------------------------------
(* One particle on its own: any sequence of sample_tree_sequential calls *)

MaxParticleSteps == 7   \* number of sample_tree_sequential calls explored

InitParticle ==
    /\ X \in GrowXs
    /\ response \in AllResponses
    /\ max_stages = 0
    /\ normal = <<>>
    /\ call = [op |-> "ParticleTree", tree_grew |-> FALSE,
               p |-> ParticleTree(init_tree(0, init_mean \div m,
                                            [j \in 1 .. num_observations |-> j - 1]),
                                  init_log_weight, init_likelihood)]
    /\ Constructed

SampleTreeSequential ==
    /\ steps < MaxParticleSteps
    /\ steps' = steps + 1
    /\ \E d \in StepDraws(call.p, normal, response) :
          \E r \in {sample_tree_sequential(call.p, ssv, prior_prob_leaf_node, X,
                                           missing_data, q, m, normal, mu_std, response, d)} :
             /\ call' = [op |-> "sample_tree_sequential", tree_grew |-> r.tree_grew,
                         p |-> r.p]
             /\ normal' = r.cache
    /\ UNCHANGED <<X, response, max_stages, tune, q, sum_trees_output,
                   sum_trees_output_noi, variable_inclusion, alpha_vec, ssv, a_tree,
                   all_particles, objs, particles, pc, tree_ids, done, tree_id, t, slot, stats>>

SpecParticle == InitParticle /\ [][SampleTreeSequential]_vars

\* the last index of the prior table
LastDepth == Cardinality(DOMAIN prior_prob_leaf_node) - 1

\* C19: the prior table ends with leaf probability 1; no node at a depth whose table
\* entry is 1 is split, no tree holds a node deeper than the table's last index, and
\* every node waiting in the queue has a depth the table holds.
C19_DepthBounded ==
    call.op \in {"ParticleTree", "sample_tree_sequential"}
        => /\ prior_prob_leaf_node[LastDepth] = RandScale
           /\ \A index \in DOMAIN call.p.tree.tree_structure :
                 /\ Depth(index) <= LastDepth
                 /\ get_node(call.p.tree, index).kind = "split"
                       => prior_prob_leaf_node[Depth(index)] < RandScale
           /\ \A j \in 1 .. Len(call.p.expansion_nodes) :
                 Depth(call.p.expansion_nodes[j]) \in DOMAIN prior_prob_leaf_node

\* a node at the last depth of the table was popped and stayed a leaf
C19_Witness ==
    /\ call.op = "sample_tree_sequential"
    /\ 3 \in DOMAIN call.p.tree.tree_structure
    /\ call.p.expansion_nodes = <<4>>

\* the split nodes of a tree among the indices S, by increasing index as the
\* breadth-first queue splits them, each with its split predictor
RECURSIVE SplitPredictors(_, _)
SplitPredictors(tree, S) ==
    IF S = {} THEN <<>>
    ELSE LET first == CHOOSE i \in S : \A k \in S : i <= k
         IN (IF get_node(tree, first).kind = "split"
             THEN <<get_node(tree, first).idx_split_variable>> ELSE <<>>)
            \o SplitPredictors(tree, S \ {first})

UsedMatchesSplits(o) ==
    o.used_variates = SplitPredictors(o.tree, DOMAIN o.tree.tree_structure)

\* the number of split nodes of a tree that split on predictor i
SplitCount(tree, i) ==
    Cardinality({k \in DOMAIN tree.tree_structure :
                    /\ get_node(tree, k).kind = "split"
                    /\ get_node(tree, k).idx_split_variable = i})

\* C20: the used-predictor list of every particle holds the split predictors of the
\* split nodes of the particle's tree, one entry per split node, in the order the
\* splits were made; and a commit adds to the predictor weights (while tuning) or to
\* variable_inclusion (otherwise) the per-predictor split counts of the accepted tree.
C20_UsedPredictors ==
    [][/\ \A ref \in DOMAIN objs' : UsedMatchesSplits(objs'[ref])
       /\ \A i \in DOMAIN all_particles' : UsedMatchesSplits(all_particles'[i])
       /\ (pc = "choose" /\ pc' = "loop")
             => \A i \in 0 .. (num_variates - 1) :
                   (IF tune THEN alpha_vec'[i] - alpha_vec[i]
                    ELSE variable_inclusion'[i] - variable_inclusion[i])
                       = SplitCount(all_particles'[tree_id].tree, i)]_vars

C20_Witness ==
    /\ Committed /\ ~tune
    /\ all_particles[tree_id].used_variates = <<1, 0>>
    /\ variable_inclusion[0] >= 1 /\ variable_inclusion[1] >= 1

----------------------------------------------------------------------------
(* Several steps, with the identity of the tree objects.  copy(self.all_trees)   *)
(* at line 281 is a shallow copy: the snapshot holds the tree objects that       *)
(* all_trees held when the step returned.  call.tree_obj[i] names the tree       *)
(* object that all_trees[i] refers to, call.bart_trees the objects the last      *)
(* snapshot refers to; line 267 stores the tree object of the winner, a new      *)
(* object unless the winner is the tree's own particle.                          *)

MaxSnapshotSteps == 2   \* number of astep calls explored with snapshots

SnapshotInit ==
    /\ X = Xb
    /\ response = "constant"
    /\ max_stages = 1
    /\ normal \in [1 .. InitCacheLen -> NormVals]
    /\ call = [op |-> "snapshot", tree_obj |-> [i \in 0 .. (m - 1) |-> i],
               created |-> m, bart_trees |-> <<>>]
    /\ Constructed

\* astep, lines 208-212
SnapshotStartStep ==
    /\ pc = "idle"
    /\ steps < MaxSnapshotSteps
    /\ steps' = steps + 1
    /\ sum_trees_output' = q
    /\ variable_inclusion' = [i \in 0 .. (num_variates - 1) |-> 0]
    /\ \E ids \in [1 .. BatchSize(tune) -> 0 .. (m - 1)] : tree_ids' = ids
    /\ done' = 0
    /\ tree_id' = None
    /\ pc' = "loop"
    /\ UNCHANGED <<X, response, max_stages, tune, q, sum_trees_output_noi, alpha_vec,
                   ssv, normal, a_tree, all_particles, objs, particles, t, slot, stats,
                   call>>

\* astep, lines 264-279
SnapshotCommit ==
    /\ pc = "choose"
    /\ LET nz == normalize([j \in 1 .. num_particles |-> Obj(particles[j - 1])])
       IN \E w \in Choice([j \in 1 .. num_particles |-> j - 1], nz.normalized_weights) :
             LET new_particle == Obj(particles[w])
             IN /\ all_particles' = [all_particles EXCEPT ![tree_id] = Accepted(new_particle)]
                /\ call' = IF particles[w] = 0 THEN call
                           ELSE [call EXCEPT !.tree_obj[tree_id] = call.created,
                                             !.created = @ + 1]
                /\ sum_trees_output' =
                       VecAdd(sum_trees_output_noi, predict_output(new_particle.tree))
                /\ ssv' = CommitSsv(tune, ssv, alpha_vec)
                /\ alpha_vec' = CommitAlphaVec(tune, alpha_vec, new_particle.used_variates)
                /\ variable_inclusion' =
                       CommitInclusion(tune, variable_inclusion, new_particle.used_variates)
    /\ objs' = <<>>
    /\ particles' = <<>>
    /\ pc' = "loop"
    /\ UNCHANGED <<X, response, max_stages, tune, q, sum_trees_output_noi, normal,
                   a_tree, tree_ids, done, tree_id, t, slot, stats, steps>>

\* astep, lines 281-283
SnapshotReturn ==
    /\ pc = "loop"
    /\ done = Len(tree_ids)
    /\ stats' = [variable_inclusion |-> variable_inclusion, bart_trees |-> all_trees]
    /\ call' = [call EXCEPT !.bart_trees = call.tree_obj]
    /\ q' = sum_trees_output
    /\ pc' = "idle"
    /\ UNCHANGED <<X, response, max_stages, tune, sum_trees_output, sum_trees_output_noi,
                   variable_inclusion, alpha_vec, ssv, normal, a_tree, all_particles,
                   objs, particles, tree_ids, done, tree_id, t, slot, steps>>

NextSnapshot ==
    \/ StopTuning
    \/ SnapshotStartStep
    \/ InitSweep
    \/ GrowStep
    \/ Resample
    \/ FinalWeights
    \/ SnapshotCommit
    \/ SnapshotReturn

SpecSnapshot == SnapshotInit /\ [][NextSnapshot]_vars

\* C21: the tree object of an accepted state is never changed in place: as long as
\* all_trees[i] refers to the same tree object its tree is the same, in every step of
\* every sweep and across steps, and every tree object of the last snapshot that is
\* still the accepted one is as it was when the step returned.
C21_AcceptedFrozen ==
    [][/\ \A i \in 0 .. (m - 1) :
             call'.tree_obj[i] = call.tree_obj[i]
                => all_particles'[i].tree = all_particles[i].tree
       /\ \A i \in DOMAIN call'.bart_trees :
             call'.bart_trees[i] = call'.tree_obj[i]
                => stats'.bart_trees[i] = all_trees'[i]]_vars

\* C21 witness: in the second step a sweep runs on a tree that the snapshot of the
\* first step refers to; that tree has been split, and a new particle of the sweep
\* has grown into a different tree
C21_Witness ==
    /\ pc = "choose"
    /\ steps = 2
    /\ call.bart_trees # <<>>
    /\ call.bart_trees[tree_id] = call.tree_obj[tree_id]
    /\ Len(stats.bart_trees[tree_id].idx_leaf_nodes) > 1
    /\ \E ref \in DOMAIN objs :
          /\ Len(objs[ref].tree.idx_leaf_nodes) > 1
          /\ objs[ref].tree # stats.bart_trees[tree_id]

====
